---------------------------- MODULE Spec2Model ----------------------------
(***************************************************************************)
(* The Seven Bridges of Koenigsberg game (src/game_python.py): the bridge  *)
(* multigraph, the degree-parity analysis, the interactive walk, the       *)
(* manual path entry and the path validator of class                       *)
(* KoenigsbergBridgesGame.                                                 *)
(*                                                                         *)
(* Strings: the Cyrillic bridge names and messages of the source are       *)
(* written in Latin transliteration; a message is a record holding the     *)
(* message's kind and the values the source formats into it.               *)
(*                                                                         *)
(* networkx: the game keeps its graph in a networkx MultiGraph.  The       *)
(* operators add_edge, nodes, edges, edges_at, get_edge_data and degree    *)
(* below, and nx_eulerian_path, follow that container's behaviour as the   *)
(* game uses it: nodes and adjacency keep insertion order, the key of a    *)
(* new edge is the number of edges already joining its two nodes, an edge  *)
(* enumerated at a node is reported from that node, and the enumeration    *)
(* of all edges reports each edge once, from the endpoint that comes       *)
(* first in node order.                                                    *)
(***************************************************************************)
EXTENDS Integers, Sequences, FiniteSets, TLC

VARIABLES
    graph,             \* self.graph: the MultiGraph
    used_bridges,      \* self.used_bridges: set of bridge ids <<u, v, key>>
    current_position,  \* self.current_position: an area, or None
    path_history,      \* self.path_history: sequence of <<from, to, bridge name>>
    pc,                \* where the program is: "start", "menu", "walk", "manual", "exit", "validate"
    choice,            \* interactive_walk: the local choice, the latest input read
    path,              \* manual_path_input: the local list path
    is_valid,          \* the local is_valid: what the latest validation returned first
    message,           \* the local message: what the latest validation returned second
    eulerian,          \* whether check_eulerian_path was called, and what it returned
    theory_path,       \* what the latest call of find_eulerian_path returned, or NotCalled
    output,            \* the kind of the latest line the program printed
    drawing            \* the snapshots update_visualization drew during the latest step

vars == <<graph, used_bridges, current_position, path_history, pc, choice, path,
          is_valid, message, eulerian, theory_path, output, drawing>>

session == <<used_bridges, current_position, path_history>>

None == "None"
NotCalled == "NotCalled"

\* what the user typed in the interactive walk: a number or any other text (Q leaves the walk)
NoChoice == [kind |-> "None", n |-> 0]
Text == [kind |-> "Text", n |-> 0]
Number(n) == [kind |-> "Number", n |-> n]

-----------------------------------------------------------------------------
(* Bounds of the model *)

\* manual_path_input accepts a further step while the list path is shorter than this
MaxPath == 3

\* the numbers typed in the interactive walk are drawn from -1 .. MaxChoice
MaxChoice == 6

\* the paths handed to validate_user_path as a pure function have at most this many steps
MaxPathLen == 8

-----------------------------------------------------------------------------
(* The fixed data of __init__ *)

areas == {"A", "B", "C", "D"}

\* bridges with the wooden bridge entered between A and B instead of A and D
bridges_wooden_to_B ==
    << [a |-> "A", b |-> "C", name |-> "Zeleny most",        color |-> "green"],
       [a |-> "A", b |-> "C", name |-> "Medovy most",        color |-> "gold"],
       [a |-> "A", b |-> "B", name |-> "Derevyanny most",    color |-> "brown"],
       [a |-> "B", b |-> "C", name |-> "Vysoky most",        color |-> "blue"],
       [a |-> "B", b |-> "C", name |-> "Kuznechny most",     color |-> "black"],
       [a |-> "B", b |-> "D", name |-> "Lavochny most",      color |-> "orange"],
       [a |-> "C", b |-> "D", name |-> "Imperatorsky most",  color |-> "purple"] >>

bridges ==
    << [a |-> "A", b |-> "C", name |-> "Zeleny most",        color |-> "green"],
       [a |-> "A", b |-> "C", name |-> "Medovy most",        color |-> "gold"],
       [a |-> "A", b |-> "D", name |-> "Derevyanny most",    color |-> "brown"],
       [a |-> "B", b |-> "C", name |-> "Vysoky most",        color |-> "blue"],
       [a |-> "B", b |-> "C", name |-> "Kuznechny most",     color |-> "black"],
       [a |-> "B", b |-> "D", name |-> "Lavochny most",      color |-> "orange"],
       [a |-> "C", b |-> "D", name |-> "Imperatorsky most",  color |-> "purple"] >>

-----------------------------------------------------------------------------
(* Sequence helpers *)

Range(s) == {s[i] : i \in DOMAIN s}

Front(s) == SubSeq(s, 1, Len(s) - 1)

Last(s) == s[Len(s)]

RECURSIVE Flatten(_)
Flatten(ss) == IF Len(ss) = 0 THEN <<>> ELSE Head(ss) \o Flatten(Tail(ss))

-----------------------------------------------------------------------------
(* The MultiGraph *)

\* a MultiGraph as networkx keeps it: the nodes in insertion order and, for every node,
\* its adjacency: the neighbours in insertion order, each with the edges to it in key order
EmptyGraph == [node |-> <<>>, adj |-> <<>>]

\* the place of neighbour m in the adjacency list l, or 0
place(l, m) ==
    IF \E i \in 1..Len(l) : l[i].nbr = m THEN CHOOSE i \in 1..Len(l) : l[i].nbr = m ELSE 0

add_node(G, n) ==
    IF n \in DOMAIN G.adj THEN G
    ELSE [node |-> Append(G.node, n), adj |-> (n :> <<>>) @@ G.adj]

\* add_edge of a simple graph (nx.Graph): a second bridge between two areas replaces the first
add_edge_simple(G, a, b, data) ==
    LET G1 == add_node(add_node(G, a), b)
        e == [key |-> 0, name |-> data.name, color |-> data.color]
        link(l, m) == IF place(l, m) = 0
                      THEN Append(l, [nbr |-> m, edges |-> <<e>>])
                      ELSE [l EXCEPT ![place(l, m)].edges = <<e>>]
    IN  [node |-> G1.node,
         adj  |-> IF a = b THEN [G1.adj EXCEPT ![a] = link(@, a)]
                  ELSE [G1.adj EXCEPT ![a] = link(@, b), ![b] = link(@, a)]]

\* graph.add_edge(a, b, **data): the new edge takes the lowest unused key of its node pair
add_edge(G, a, b, data) ==
    LET G1 == add_node(add_node(G, a), b)
        at == place(G1.adj[a], b)
        new_key == IF at = 0 THEN 0 ELSE Len(G1.adj[a][at].edges)
        e == [key |-> new_key, name |-> data.name, color |-> data.color]
        link(l, m) == IF place(l, m) = 0
                      THEN Append(l, [nbr |-> m, edges |-> <<e>>])
                      ELSE [l EXCEPT ![place(l, m)].edges = Append(@, e)]
    IN  [node |-> G1.node,
         adj  |-> IF a = b THEN [G1.adj EXCEPT ![a] = link(@, a)]
                  ELSE [G1.adj EXCEPT ![a] = link(@, b), ![b] = link(@, a)]]

\* the loop of __init__ that adds every bridge of self.bridges to the graph
RECURSIVE build_graph(_)
build_graph(bs) ==
    IF Len(bs) = 0 THEN EmptyGraph
    ELSE add_edge(build_graph(Front(bs)), Last(bs).a, Last(bs).b, Last(bs))

\* graph.nodes()
nodes(G) == G.node

\* the edges of one adjacency entry of node n, each reported as <<n, neighbour, key>>
edges_to(n, entry) ==
    [k \in 1..Len(entry.edges) |-> <<n, entry.nbr, entry.edges[k].key>>]

\* graph.edges(n, keys=True): every edge at n, reported from n
edges_at(G, n) ==
    IF n \notin DOMAIN G.adj THEN <<>>
    ELSE Flatten([i \in 1..Len(G.adj[n]) |-> edges_to(n, G.adj[n][i])])

\* graph.edges(keys=True): every edge once, reported from its endpoint first in node order
edges(G) ==
    LET unseen(i) == SelectSeq(G.adj[G.node[i]],
                               LAMBDA entry : \A j \in 1..(i - 1) : G.node[j] # entry.nbr)
        from(i) == LET l == unseen(i)
                   IN  Flatten([k \in 1..Len(l) |-> edges_to(G.node[i], l[k])])
    IN  Flatten([i \in 1..Len(G.node) |-> from(i)])

\* graph.get_edge_data(u, v, key): the attributes of the edge, whichever way it is named
get_edge_data(G, u, v, key) ==
    LET es == G.adj[u][place(G.adj[u], v)].edges
        e == es[CHOOSE k \in 1..Len(es) : es[k].key = key]
    IN  [name |-> e.name, color |-> e.color]

\* graph.degree(): the number of edge ends at n (a self-loop counts twice)
degree(G, n) ==
    LET l == G.adj[n]
    IN  Cardinality({<<i, k>> \in (1..Len(l)) \X (0..Len(bridges)) : k < Len(l[i].edges)})
        + Cardinality({<<i, k>> \in (1..Len(l)) \X (0..Len(bridges)) :
                          l[i].nbr = n /\ k < Len(l[i].edges)})

-----------------------------------------------------------------------------
(* The Eulerian analysis *)

\* the number of nodes of odd degree
odd_degree_count(G) ==
    Cardinality({i \in 1..Len(G.node) : degree(G, G.node[i]) % 2 # 0})

\* check_eulerian_path with the parity rule loosened to "an even number of odd nodes"
check_eulerian_path_even(G) ==
    odd_degree_count(G) % 2 = 0

\* check_eulerian_path accepting only the circuit case: no node of odd degree
check_eulerian_path_circuit_only(G) ==
    odd_degree_count(G) = 0

\* check_eulerian_path: Euler's parity rule over the degrees of the graph
check_eulerian_path(G) ==
    odd_degree_count(G) = 0 \/ odd_degree_count(G) = 2

\* the nodes that can be reached from the set S along edges of G
RECURSIVE reach(_, _)
reach(G, S) ==
    LET T == S \cup {G.adj[n][i].nbr : <<n, i>> \in
                        {<<m, j>> \in S \X (1..Len(bridges)) : j <= Len(G.adj[m])}}
    IN  IF T = S THEN S ELSE reach(G, T)

\* nx.has_eulerian_path as nx.eulerian_path consults it: 0 or 2 odd nodes, and connected
nx_has_eulerian_path(G) ==
    /\ odd_degree_count(G) \in {0, 2}
    /\ Len(G.node) > 0
    /\ reach(G, {G.node[1]}) = Range(G.node)

NoTrail == [ok |-> FALSE, trail |-> <<>>]

\* a trail from pos over exactly the edges es[i], i in left, found by backtracking
RECURSIVE trail_from(_, _, _)
trail_from(es, pos, left) ==
    IF left = {} THEN [ok |-> TRUE, trail |-> <<>>]
    ELSE LET other(i) == IF es[i][1] = pos THEN es[i][2] ELSE es[i][1]
             good == {i \in left : /\ pos \in {es[i][1], es[i][2]}
                                   /\ trail_from(es, other(i), left \ {i}).ok}
         IN  IF good = {} THEN NoTrail
             ELSE LET i == CHOOSE i \in good : \A j \in good : i <= j
                  IN  [ok |-> TRUE,
                       trail |-> <<<<pos, other(i)>>>> \o trail_from(es, other(i), left \ {i}).trail]

\* nx.eulerian_path: raises NetworkXError when the graph has no Eulerian path,
\* and otherwise yields the node pairs of one
nx_eulerian_path(G) ==
    IF ~nx_has_eulerian_path(G) THEN [raised |-> TRUE, route |-> <<>>]
    ELSE LET es == edges(G)
             starts == {i \in 1..Len(G.node) : trail_from(es, G.node[i], 1..Len(es)).ok}
             s == CHOOSE i \in starts : \A j \in starts : i <= j
         IN  [raised |-> FALSE, route |-> trail_from(es, G.node[s], 1..Len(es)).trail]

\* find_eulerian_path: the list of the path's node pairs, or None on NetworkXError
find_eulerian_path(G) ==
    IF nx_eulerian_path(G).raised THEN [status |-> "None", route |-> <<>>]
    ELSE [status |-> "Found", route |-> nx_eulerian_path(G).route]

-----------------------------------------------------------------------------
(* The path validator *)

\* the messages validate_user_path formats, by kind, with the values formatted into them
NoMessage == [kind |-> "None", step |-> 0, from |-> "", to |-> "", name |-> "", used |-> 0, total |-> 0]

\* "Oshibka na shage {i+1}: nelzya pereyti iz {current_position} v {u}"
OriginMismatch(i, expected, actual) ==
    [NoMessage EXCEPT !.kind = "OriginMismatch", !.step = i, !.from = expected, !.to = actual]

\* "Oshibka na shage {i+1}: most {name} uzhe ispolzovan"
BridgeReused(i, name) ==
    [NoMessage EXCEPT !.kind = "BridgeReused", !.step = i, !.name = name]

\* "Oshibka na shage {i+1}: mosta {name} mezhdu {u} i {v} ne sushchestvuet"
BridgeNotFound(i, name, u, v) ==
    [NoMessage EXCEPT !.kind = "BridgeNotFound", !.step = i, !.name = name, !.from = u, !.to = v]

\* "Ispolzovano tolko {len(used_bridges)} iz {len(self.bridges)} mostov"
IncompletePath(n, total) ==
    [NoMessage EXCEPT !.kind = "IncompletePath", !.used = n, !.total = total]

\* "Otlichny marshrut! Vy proshli vse mosty bez povtoreniy!"
Complete == [NoMessage EXCEPT !.kind = "Complete"]

\* graph.edges(data=True, keys=True): every edge once, with its name
edges_with_data(G) ==
    LET es == edges(G)
    IN  [j \in 1..Len(es) |->
            [id |-> es[j], name |-> get_edge_data(G, es[j][1], es[j][2], es[j][3]).name]]

\* matching_edges accepting a bridge only in the direction the graph reports it
matching_edges_one_way(es, u, v, name) ==
    {j \in 1..Len(es) : es[j].name = name /\ es[j].id[1] = u /\ es[j].id[2] = v}

\* the inner loop of validate_user_path and of manual_path_input: the positions, in the
\* enumeration es of all edges, of the edges called name that join u and v in either direction
matching_edges(es, u, v, name) ==
    {j \in 1..Len(es) :
        /\ es[j].name = name
        /\ \/ es[j].id[1] = u /\ es[j].id[2] = v
           \/ es[j].id[1] = v /\ es[j].id[2] = u}

\* first_match naming the bridge in the direction of the step instead of the graph's
first_match_as_walked(es, u, v, name) ==
    LET m == {j \in 1..Len(es) :
                 /\ es[j].name = name
                 /\ \/ es[j].id[1] = u /\ es[j].id[2] = v
                    \/ es[j].id[1] = v /\ es[j].id[2] = u}
    IN  <<u, v, es[CHOOSE j \in m : \A k \in m : j <= k].id[3]>>

\* the bridge id the inner loop stops at: the first matching edge, as the graph reports it
first_match(es, u, v, name) ==
    LET m == matching_edges(es, u, v, name)
    IN  es[CHOOSE j \in m : \A k \in m : j <= k].id

\* verdict accepting a path that lacks one bridge
verdict_off_by_one(used) ==
    IF Cardinality(used) >= Len(bridges) - 1
    THEN [valid |-> TRUE, message |-> Complete]
    ELSE [valid |-> FALSE, message |-> IncompletePath(Cardinality(used), Len(bridges))]

\* the end of validate_user_path: every step passed, and the bridges used are counted
verdict(used) ==
    IF Cardinality(used) = Len(bridges)
    THEN [valid |-> TRUE, message |-> Complete]
    ELSE [valid |-> FALSE, message |-> IncompletePath(Cardinality(used), Len(bridges))]

RECURSIVE replay(_, _, _, _, _)

\* replay looking the bridge up before it compares the step's origin
replay_lookup_first(es, p, i, used, position) ==
    IF i > Len(p) THEN verdict(used)
    ELSE LET u == p[i][1]
             v == p[i][2]
             name == p[i][3]
         IN  IF matching_edges(es, u, v, name) = {}
             THEN [valid |-> FALSE, message |-> BridgeNotFound(i, name, u, v)]
             ELSE IF first_match(es, u, v, name) \in used
             THEN [valid |-> FALSE, message |-> BridgeReused(i, name)]
             ELSE IF u # position
             THEN [valid |-> FALSE, message |-> OriginMismatch(i, position, u)]
             ELSE replay(es, p, i + 1, used \cup {first_match(es, u, v, name)}, v)

\* the loop of validate_user_path from step i on, with the local used_bridges and
\* current_position
replay(es, p, i, used, position) ==
    IF i > Len(p) THEN verdict(used)
    ELSE LET u == p[i][1]
             v == p[i][2]
             name == p[i][3]
         IN  IF u # position
             THEN [valid |-> FALSE, message |-> OriginMismatch(i, position, u)]
             ELSE IF matching_edges(es, u, v, name) = {}
             THEN [valid |-> FALSE, message |-> BridgeNotFound(i, name, u, v)]
             ELSE IF first_match(es, u, v, name) \in used
             THEN [valid |-> FALSE, message |-> BridgeReused(i, name)]
             ELSE replay(es, p, i + 1, used \cup {first_match(es, u, v, name)}, v)

\* validate_user_path starting from the session's used set instead of a fresh one
validate_user_path_session(p) ==
    replay(edges_with_data(graph), p, 1, used_bridges, IF Len(p) > 0 THEN p[1][1] ELSE None)

\* validate_user_path taking the empty path for a complete one
validate_user_path_empty_ok(p) ==
    IF Len(p) = 0 THEN [valid |-> TRUE, message |-> Complete]
    ELSE replay(edges_with_data(graph), p, 1, {}, p[1][1])

\* validate_user_path(path): a fresh used set, and the first step's origin as the position
validate_user_path(p) ==
    replay(edges_with_data(graph), p, 1, {}, IF Len(p) > 0 THEN p[1][1] ELSE None)

-----------------------------------------------------------------------------
(* The drawing *)

\* update_visualization(highlight_edges, current_node) with self.used_bridges = used: the
\* snapshot it draws, edge by edge in the order of graph.edges(keys=True, data=True); an
\* edge is drawn "used" (gray, dashed) when its id is in the used set, else "highlight"
\* (lime) when its id is in highlight_edges, else "plain" (in its own colour)
update_visualization(used, highlight_edges, current_node) ==
    LET es == edges_with_data(graph)
    IN  [current_node |-> current_node,
         edge |-> [j \in 1..Len(es) |->
                      [id    |-> es[j].id,
                       name  |-> es[j].name,
                       style |-> IF es[j].id \in used THEN "used"
                                 ELSE IF es[j].id \in Range(highlight_edges) THEN "highlight"
                                 ELSE "plain"]]]

\* initialize_visualization: the layout is computed and the graph drawn with the defaults
initialize_visualization(used) == update_visualization(used, <<>>, None)

-----------------------------------------------------------------------------
(* The state after construction *)

Init ==
    /\ graph = build_graph(bridges)
    /\ used_bridges = {}
    /\ current_position = None
    /\ path_history = <<>>
    /\ pc = "start"
    /\ choice = NoChoice
    /\ path = <<>>
    /\ is_valid = FALSE
    /\ message = NoMessage
    /\ eulerian = [called |-> FALSE, value |-> FALSE]
    /\ theory_path = [status |-> NotCalled, route |-> <<>>]
    /\ output = "None"
    /\ drawing = <<>>

-----------------------------------------------------------------------------
(* play: the introduction and the menu *)

\* play up to the menu: the analysis is printed once
PlayIntro ==
    /\ pc = "start"
    /\ pc' = "menu"
    /\ eulerian' = [called |-> TRUE, value |-> check_eulerian_path(graph)]
    /\ IF check_eulerian_path(graph)
       THEN /\ theory_path' = find_eulerian_path(graph)
            /\ output' = IF find_eulerian_path(graph).status = "Found"
                         THEN "TheoryRoute" ELSE "UnexpectedError"
       ELSE /\ theory_path' = theory_path
            /\ output' = "PathImpossible"
    /\ drawing' = <<initialize_visualization(used_bridges)>>
    /\ UNCHANGED <<graph, used_bridges, current_position, path_history, choice, path,
                   is_valid, message>>

\* MenuWalk starting at A without emptying the used set and the history
MenuWalk_keeps_used ==
    /\ pc = "menu"
    /\ pc' = "walk"
    /\ current_position' = "A"
    /\ output' = "WalkIntro"
    /\ choice' = NoChoice
    /\ is_valid' = FALSE
    /\ message' = NoMessage
    /\ drawing' = <<initialize_visualization(used_bridges)>>
    /\ UNCHANGED <<graph, used_bridges, path_history, path, eulerian, theory_path>>

\* menu choice 1: interactive_walk starts a fresh walk at A
MenuWalk ==
    /\ pc = "menu"
    /\ pc' = "walk"
    /\ used_bridges' = {}
    /\ current_position' = "A"
    /\ path_history' = <<>>
    /\ output' = "WalkIntro"
    /\ choice' = NoChoice
    /\ is_valid' = FALSE
    /\ message' = NoMessage
    /\ drawing' = <<initialize_visualization({})>>
    /\ UNCHANGED <<graph, path, eulerian, theory_path>>

\* menu choice 2: manual_path_input starts with an empty local path
MenuManual ==
    /\ pc = "menu"
    /\ pc' = "manual"
    /\ path' = <<>>
    /\ output' = "ManualIntro"
    /\ is_valid' = FALSE
    /\ message' = NoMessage
    /\ drawing' = <<initialize_visualization(used_bridges)>>
    /\ UNCHANGED <<graph, used_bridges, current_position, path_history, choice,
                   eulerian, theory_path>>

\* menu choice 3: the theoretical solution is computed and shown again
MenuTheory ==
    /\ pc = "menu"
    /\ theory_path' = find_eulerian_path(graph)
    /\ output' = IF find_eulerian_path(graph).status = "Found"
                 THEN "TheoryRoute" ELSE "TheoryImpossible"
    /\ drawing' = <<>>
    /\ UNCHANGED <<graph, used_bridges, current_position, path_history, pc, choice, path,
                   is_valid, message, eulerian>>

\* menu choice 4: the loop ends and the historical note is printed
MenuExit ==
    /\ pc = "menu"
    /\ pc' = "exit"
    /\ output' = "HistoricalNote"
    /\ drawing' = <<>>
    /\ UNCHANGED <<graph, used_bridges, current_position, path_history, choice, path,
                   is_valid, message, eulerian, theory_path>>

\* any other menu input
MenuBadChoice ==
    /\ pc = "menu"
    /\ output' = "BadChoice"
    /\ drawing' = <<>>
    /\ UNCHANGED <<graph, used_bridges, current_position, path_history, pc, choice, path,
                   is_valid, message, eulerian, theory_path>>

-----------------------------------------------------------------------------
(* interactive_walk: one action per turn of its loop *)

\* the reverse naming of a bridge id
reversed(id) == <<id[2], id[1], id[3]>>

\* available_bridges testing a bridge only under the name it has at the current position
available_bridges_one_way ==
    LET free == SelectSeq(edges_at(graph, current_position), LAMBDA e : e \notin used_bridges)
    IN  [i \in DOMAIN free |->
            [bridge_id |-> free[i],
             name      |-> get_edge_data(graph, free[i][1], free[i][2], free[i][3]).name,
             direction |-> IF free[i][1] = current_position THEN free[i][2] ELSE free[i][1]]]

\* the list available_bridges the loop builds at the current position
available_bridges ==
    LET free == SelectSeq(edges_at(graph, current_position),
                          LAMBDA e : e \notin used_bridges /\ reversed(e) \notin used_bridges)
    IN  [i \in DOMAIN free |->
            [bridge_id |-> free[i],
             name      |-> get_edge_data(graph, free[i][1], free[i][2], free[i][3]).name,
             direction |-> IF free[i][1] = current_position THEN free[i][2] ELSE free[i][1]]]

\* the snapshot drawn before the input is read: the offered bridges are passed as
\* highlight_edges, the current position as current_node
highlighted ==
    update_visualization(used_bridges,
                         [i \in DOMAIN available_bridges |-> available_bridges[i].bridge_id],
                         current_position)

\* the test of the typed number: 0 <= choice_idx < len(available_bridges)
in_range(choice_idx, n) == 0 <= choice_idx /\ choice_idx < n

\* WalkStuck going round the loop again instead of breaking out of it
WalkStuck_continues ==
    /\ pc = "walk"
    /\ Len(available_bridges) = 0
    /\ pc' = "walk"
    /\ choice' = NoChoice
    /\ output' = "NoBridges"
    /\ drawing' = <<>>
    /\ UNCHANGED <<graph, used_bridges, current_position, path_history, path,
                   is_valid, message, eulerian, theory_path>>

\* no unused bridge at the current position: the loop breaks
WalkStuck ==
    /\ pc = "walk"
    /\ Len(available_bridges) = 0
    /\ pc' = "menu"
    /\ choice' = NoChoice
    /\ output' = "NoBridges"
    /\ drawing' = <<>>
    /\ UNCHANGED <<graph, used_bridges, current_position, path_history, path,
                   is_valid, message, eulerian, theory_path>>

\* the input Q (or q): the walk returns
WalkQuit ==
    /\ pc = "walk"
    /\ Len(available_bridges) > 0
    /\ pc' = "menu"
    /\ choice' = NoChoice
    /\ output' = "WalkQuit"
    /\ drawing' = <<highlighted>>
    /\ UNCHANGED <<graph, used_bridges, current_position, path_history, path,
                   is_valid, message, eulerian, theory_path>>

\* an input that int() rejects: ValueError is caught and the loop goes on
WalkNotNumber ==
    /\ pc = "walk"
    /\ Len(available_bridges) > 0
    /\ choice' = Text
    /\ output' = "NotANumber"
    /\ drawing' = <<highlighted>>
    /\ UNCHANGED <<graph, used_bridges, current_position, path_history, pc, path,
                   is_valid, message, eulerian, theory_path>>

\* WalkBadNumber leaving the loop instead of asking again
WalkBadNumber_leaves(n) ==
    /\ pc = "walk"
    /\ Len(available_bridges) > 0
    /\ ~in_range(n - 1, Len(available_bridges))
    /\ pc' = "menu"
    /\ choice' = Number(n)
    /\ output' = "BadNumber"
    /\ drawing' = <<highlighted>>
    /\ UNCHANGED <<graph, used_bridges, current_position, path_history, path,
                   is_valid, message, eulerian, theory_path>>

\* a number that is not the number of an offered bridge
WalkBadNumber(n) ==
    /\ pc = "walk"
    /\ Len(available_bridges) > 0
    /\ ~in_range(n - 1, Len(available_bridges))
    /\ choice' = Number(n)
    /\ output' = "BadNumber"
    /\ drawing' = <<highlighted>>
    /\ UNCHANGED <<graph, used_bridges, current_position, path_history, pc, path,
                   is_valid, message, eulerian, theory_path>>

\* WalkMove recording the crossing without moving to the other side
WalkMove_stays(n) ==
    /\ pc = "walk"
    /\ Len(available_bridges) > 0
    /\ in_range(n - 1, Len(available_bridges))
    /\ LET chosen == available_bridges[n]
       IN  /\ used_bridges' = used_bridges \cup {chosen.bridge_id}
           /\ path_history' = Append(path_history,
                                     <<current_position, chosen.direction, chosen.name>>)
           /\ current_position' = current_position
    /\ IF Cardinality(used_bridges') = Len(bridges)
       THEN pc' = "menu" /\ choice' = NoChoice /\ output' = "Congratulations"
       ELSE pc' = "walk" /\ choice' = Number(n) /\ output' = "Crossed"
    /\ drawing' = <<highlighted, update_visualization(used_bridges', <<>>, current_position')>>
    /\ UNCHANGED <<graph, path, is_valid, message, eulerian, theory_path>>

\* the number of an offered bridge: the bridge is crossed, and the walk returns
\* when every bridge is used
WalkMove(n) ==
    /\ pc = "walk"
    /\ Len(available_bridges) > 0
    /\ in_range(n - 1, Len(available_bridges))
    /\ LET chosen == available_bridges[n]
       IN  /\ used_bridges' = used_bridges \cup {chosen.bridge_id}
           /\ path_history' = Append(path_history,
                                     <<current_position, chosen.direction, chosen.name>>)
           /\ current_position' = chosen.direction
    /\ IF Cardinality(used_bridges') = Len(bridges)
       THEN pc' = "menu" /\ choice' = NoChoice /\ output' = "Congratulations"
       ELSE pc' = "walk" /\ choice' = Number(n) /\ output' = "Crossed"
    /\ drawing' = <<highlighted, update_visualization(used_bridges', <<>>, current_position')>>
    /\ UNCHANGED <<graph, path, is_valid, message, eulerian, theory_path>>

-----------------------------------------------------------------------------
(* manual_path_input: one action per turn of its loop *)

BridgeNames == {bridges[i].name : i \in DOMAIN bridges}

\* a name no bridge has
UnknownName == "Neizvestny most"

\* the well-formed steps a user can type: two areas and a name
Steps == areas \X areas \X (BridgeNames \cup {UnknownName})

\* the steps typed in manual_path_input: a first crossing, crossings back over the same
\* and over the parallel bridge, a bridge named between the wrong areas, a name no bridge
\* has, and a crossing elsewhere on the map
ManualSteps ==
    { <<"A", "C", "Zeleny most">>,
      <<"C", "A", "Zeleny most">>,
      <<"C", "A", "Medovy most">>,
      <<"A", "B", "Zeleny most">>,
      <<"B", "D", UnknownName>>,
      <<"D", "B", "Lavochny most">> }

\* the used set manual_path_input rebuilds from the path: for every step, the first edge
\* of that name between the step's areas, when there is one
used_of(G, p) ==
    LET es == edges_with_data(G)
    IN  {first_match(es, p[i][1], p[i][2], p[i][3]) :
            i \in {j \in 1..Len(p) : matching_edges(es, p[j][1], p[j][2], p[j][3]) # {}}}

\* an input that does not split into three parts
ManualMalformed ==
    /\ pc = "manual"
    /\ output' = "NeedThreeValues"
    /\ drawing' = <<update_visualization(used_bridges, <<>>, None)>>
    /\ UNCHANGED <<graph, used_bridges, current_position, path_history, pc, choice, path,
                   is_valid, message, eulerian, theory_path>>

\* three parts, of which the first or the second is not one of the areas
ManualBadAreas ==
    /\ pc = "manual"
    /\ output' = "BadAreas"
    /\ drawing' = <<update_visualization(used_bridges, <<>>, None)>>
    /\ UNCHANGED <<graph, used_bridges, current_position, path_history, pc, choice, path,
                   is_valid, message, eulerian, theory_path>>

\* a well-formed step: it is appended, the whole path is validated, and the step is
\* popped again or the session is rebuilt from the path
ManualEnter(step) ==
    /\ pc = "manual"
    /\ Len(path) < MaxPath
    /\ LET p == Append(path, step)
           r == validate_user_path(p)
       IN  /\ is_valid' = r.valid
           /\ message' = r.message
           /\ IF ~r.valid /\ r.message.kind # "BridgeReused" /\ r.message.kind # "BridgeNotFound"
              THEN /\ path' = path
                   /\ output' = "Warning"
                   /\ drawing' = <<update_visualization(used_bridges, <<>>, None)>>
                   /\ UNCHANGED <<used_bridges, current_position, path_history>>
              ELSE /\ path' = p
                   /\ path_history' = p
                   /\ used_bridges' = used_of(graph, p)
                   /\ current_position' = Last(p)[2]
                   /\ output' = output
                   /\ drawing' = <<update_visualization(used_bridges, <<>>, None),
                                   update_visualization(used_bridges', <<>>, current_position')>>
    /\ UNCHANGED <<graph, pc, choice, eulerian, theory_path>>

\* the input "gotovo": the path is validated once more and the verdict printed
ManualDone ==
    /\ pc = "manual"
    /\ pc' = "menu"
    /\ LET r == validate_user_path(path)
       IN  is_valid' = r.valid /\ message' = r.message
    /\ path' = <<>>
    /\ output' = "Verdict"
    /\ drawing' = <<update_visualization(used_bridges, <<>>, None)>>
    /\ UNCHANGED <<graph, used_bridges, current_position, path_history, choice,
                   eulerian, theory_path>>

-----------------------------------------------------------------------------
(* The program *)

Next ==
    \/ PlayIntro
    \/ MenuWalk
    \/ MenuManual
    \/ MenuTheory
    \/ MenuExit
    \/ MenuBadChoice
    \/ WalkStuck
    \/ WalkQuit
    \/ WalkNotNumber
    \/ \E n \in -1..MaxChoice : WalkBadNumber(n)
    \/ \E n \in -1..MaxChoice : WalkMove(n)
    \/ ManualMalformed
    \/ ManualBadAreas
    \/ \E step \in ManualSteps : ManualEnter(step)
    \/ ManualDone

Spec == Init /\ [][Next]_vars

\* the program with a user who walks again and again and never types Q
NextNoQuit ==
    \/ PlayIntro
    \/ MenuWalk
    \/ WalkStuck
    \/ WalkNotNumber
    \/ \E n \in -1..MaxChoice : WalkBadNumber(n)
    \/ \E n \in -1..MaxChoice : WalkMove(n)

\* what a crossing does to the used set: a turn of the walk adds an offered bridge to it
WalkCrosses ==
    /\ pc = "walk"
    /\ \E n \in 1..Len(available_bridges) :
          used_bridges' = used_bridges \cup {available_bridges[n].bridge_id}

\* the loop of interactive_walk goes on with its next turn, and the user, asked for a
\* move, types the number of an offered bridge in the end
SpecNoQuit ==
    /\ Init
    /\ [][NextNoQuit]_vars
    /\ WF_vars(WalkStuck)
    /\ WF_used_bridges(WalkCrosses)

-----------------------------------------------------------------------------
(* validate_user_path as a function of its argument: it is called on the empty path     *)
(* and then on ever longer paths.  A path whose steps all pass is extended by any step; *)
(* a path with a failing step is extended, once it has as many steps as there are       *)
(* bridges, by its last step again.                                                     *)

InitValidate ==
    /\ graph = build_graph(bridges)
    /\ used_bridges = {}
    /\ current_position = None
    /\ path_history = <<>>
    /\ pc = "validate"
    /\ choice = NoChoice
    /\ path = <<>>
    /\ is_valid = FALSE
    /\ message = NoMessage
    /\ eulerian = [called |-> FALSE, value |-> FALSE]
    /\ theory_path = [status |-> NotCalled, route |-> <<>>]
    /\ output = "None"
    /\ drawing = <<>>

ValidateCall(p) ==
    /\ path' = p
    /\ LET r == validate_user_path(p)
       IN  is_valid' = r.valid /\ message' = r.message
    /\ UNCHANGED <<graph, used_bridges, current_position, path_history, pc, choice,
                   eulerian, theory_path, output, drawing>>

ValidateEmpty ==
    /\ pc = "validate"
    /\ message.kind = "None"
    /\ ValidateCall(<<>>)

ValidateLonger(step) ==
    /\ pc = "validate"
    /\ message.kind # "None"
    /\ Len(path) < MaxPathLen
    /\ \/ message.kind \in {"IncompletePath", "Complete"}
       \/ Len(path) >= Len(bridges) /\ step = Last(path)
    /\ ValidateCall(Append(path, step))

NextValidate ==
    \/ ValidateEmpty
    \/ \E step \in Steps : ValidateLonger(step)

SpecValidate == InitValidate /\ [][NextValidate]_vars

-----------------------------------------------------------------------------
(* The analysis on modified bridge sets: the game is constructed with a list of bridges *)
(* that is a non-empty selection of the seven bridges and of one more, between A and B, *)
(* and play runs its analysis and shows the theoretical solution again.                 *)

\* a bridge the fixed map does not have
NewBridge == [a |-> "A", b |-> "B", name |-> "Novy most", color |-> "red"]

\* the bridges of the list bs whose index is in S, in the order of bs
selection(bs, S) ==
    LET idx == SelectSeq([k \in 1..Len(bs) |-> k], LAMBDA k : k \in S)
    IN  [i \in 1..Len(idx) |-> bs[idx[i]]]

\* the modified bridge lists
ModifiedBridges ==
    {selection(Append(bridges, NewBridge), S) : S \in (SUBSET (1..(Len(bridges) + 1))) \ {{}}}

InitModified ==
    /\ graph \in {build_graph(bs) : bs \in ModifiedBridges}
    /\ used_bridges = {}
    /\ current_position = None
    /\ path_history = <<>>
    /\ pc = "start"
    /\ choice = NoChoice
    /\ path = <<>>
    /\ is_valid = FALSE
    /\ message = NoMessage
    /\ eulerian = [called |-> FALSE, value |-> FALSE]
    /\ theory_path = [status |-> NotCalled, route |-> <<>>]
    /\ output = "None"
    /\ drawing = <<>>

NextModified ==
    \/ PlayIntro
    \/ MenuTheory

SpecModified == InitModified /\ [][NextModified]_vars

-----------------------------------------------------------------------------
(* The interactive walk: claims C1 to C3 *)

\* the name of the bridge a bridge id stands for
name_of(id) == get_edge_data(graph, id[1], id[2], id[3]).name

\* C1: during an interactive walk no offered move is a bridge of the used set, under
\* either naming of its endpoints; and every bridge the walk has crossed is in the used
\* set and is not offered.
C1_LegalMovesAreUnused ==
    pc = "walk" =>
        /\ \A i \in 1..Len(available_bridges) :
              /\ available_bridges[i].bridge_id \notin used_bridges
              /\ reversed(available_bridges[i].bridge_id) \notin used_bridges
        /\ \A k \in 1..Len(path_history) :
              /\ \E id \in used_bridges : name_of(id) = path_history[k][3]
              /\ \A i \in 1..Len(available_bridges) :
                    available_bridges[i].name # path_history[k][3]

\* the walk is back on a side from which it crossed a bridge, and that bridge is withheld
C1_Witness ==
    /\ pc = "walk"
    /\ Len(available_bridges) > 0
    /\ \E i \in 1..Len(edges_at(graph, current_position)) :
          reversed(edges_at(graph, current_position)[i]) \in used_bridges

\* the step crosses bridge number b of the list bridges from the current position
Crossing(b) ==
    LET here == current_position
        there == IF bridges[b].a = here THEN bridges[b].b ELSE bridges[b].a
    IN  /\ here \in {bridges[b].a, bridges[b].b}
        /\ \A id \in used_bridges : name_of(id) # bridges[b].name
        /\ \E i \in 1..Len(available_bridges) : available_bridges[i].name = bridges[b].name
        /\ \E id \in used_bridges' :
              /\ id \notin used_bridges
              /\ used_bridges' = used_bridges \cup {id}
              /\ {id[1], id[2]} = {bridges[b].a, bridges[b].b}
              /\ name_of(id) = bridges[b].name
        /\ path_history' = Append(path_history, <<here, there, bridges[b].name>>)
        /\ current_position' = there

\* C2: a step of the interactive walk either leaves the used set, the history and the
\* current position as they are, or crosses one offered, unused bridge at the current
\* position: that bridge is added to the used set, (previous position, other endpoint,
\* bridge name) is appended to the history, and the other endpoint is the new position.
C2_MoveIsTheOnlyMutator ==
    [][pc = "walk" =>
          \/ UNCHANGED session
          \/ \E b \in 1..Len(bridges) : Crossing(b)]_vars

\* the walk has crossed at least two bridges and stands where its last step ended
C2_Witness ==
    /\ pc = "walk"
    /\ Len(path_history) >= 2
    /\ Cardinality(used_bridges) = Len(path_history)
    /\ current_position = Last(path_history)[2]

\* C3: when the input of the interactive walk is a number outside 1..number of offered
\* moves, or a text that is no number, the input is rejected: the current position, the
\* used set and the history stay as they are and the walk goes on asking.
C3_InvalidSelectionRejected ==
    [][(/\ pc = "walk"
        /\ \/ choice'.kind = "Text"
           \/ choice'.kind = "Number" /\ choice'.n \notin 1..Len(available_bridges))
       => /\ UNCHANGED session
          /\ pc' = "walk"
          /\ output' = IF choice'.kind = "Text" THEN "NotANumber" ELSE "BadNumber"]_vars

\* after some crossings a number beyond the offered moves was typed and rejected
C3_Witness ==
    /\ pc = "walk"
    /\ Len(path_history) > 0
    /\ choice.kind = "Number"
    /\ choice.n > Len(available_bridges)
    /\ output = "BadNumber"

-----------------------------------------------------------------------------
(* The path validator: claims C4 to C9 *)

\* the three checks of a step, stated on the path and the list bridges alone
ExpectedOrigin(p, i) == IF i = 1 THEN p[1][1] ELSE p[i - 1][2]

StepOriginOk(p, i) == p[i][1] = ExpectedOrigin(p, i)

BridgeExists(step) ==
    \E b \in 1..Len(bridges) :
        bridges[b].name = step[3] /\ {bridges[b].a, bridges[b].b} = {step[1], step[2]}

BridgeFresh(p, i) == \A j \in 1..(i - 1) : p[j][3] # p[i][3]

StepPasses(p, i) == StepOriginOk(p, i) /\ BridgeExists(p[i]) /\ BridgeFresh(p, i)

PassesBefore(p, i) == \A j \in 1..(i - 1) : StepPasses(p, j)

AllStepsPass(p) == \A i \in 1..Len(p) : StepPasses(p, i)

\* the number of distinct bridges a path of passing steps uses
BridgesUsed(p) == Cardinality({p[i][3] : i \in 1..Len(p)})

\* two steps of the path cross the same bridge
CrossesTwice(p) ==
    \E i, j \in 1..Len(p) :
        i < j /\ BridgeExists(p[i]) /\ BridgeExists(p[j]) /\ p[i][3] = p[j][3]

\* validate_user_path was called on path, and is_valid and message hold what it returned
Called == pc = "validate" /\ message.kind # "None"

\* C4: validate_user_path returns valid exactly when every step passes the origin, the
\* existence and the no-reuse check and 7 distinct bridges are used; when every step
\* passes and fewer are used, it returns invalid with the incomplete-path reason that
\* reports the used count out of 7.
C4_ValidIffAllPassAndComplete ==
    Called =>
        /\ is_valid <=> (AllStepsPass(path) /\ BridgesUsed(path) = 7)
        /\ is_valid => message = Complete
        /\ (AllStepsPass(path) /\ BridgesUsed(path) < 7)
              => ~is_valid /\ message = IncompletePath(BridgesUsed(path), 7)

\* a path of six passing steps is reported as 6 of 7
C4_Witness ==
    /\ Called
    /\ Len(path) = 6
    /\ AllStepsPass(path)
    /\ ~is_valid
    /\ message = IncompletePath(6, 7)

\* C5: when the steps before step i pass and step i does not start at the running
\* position, validation fails at step i with the origin-mismatch reason naming the
\* expected and the actual origin, whether or not the step's bridge exists or is used.
C5_OriginMismatchFirst ==
    Called =>
        \A i \in 1..Len(path) :
            (PassesBefore(path, i) /\ ~StepOriginOk(path, i))
               => /\ ~is_valid
                  /\ message = OriginMismatch(i, ExpectedOrigin(path, i), path[i][1])

\* a step from the wrong origin that names the bridge the first step crossed
C5_Witness ==
    /\ Called
    /\ message.kind = "OriginMismatch"
    /\ message.step >= 3
    /\ path[message.step][3] = path[1][3]

\* C6: a step with the right origin, after passing steps, fails as bridge-not-found
\* exactly when no bridge has its name and its unordered pair of areas; the path that
\* starts with (A, B, Zeleny most) fails so at step 1.
C6_NotFoundIffNoSuchBridge ==
    Called =>
        /\ \A i \in 1..Len(path) :
              (PassesBefore(path, i) /\ StepOriginOk(path, i))
                 => /\ (message.kind = "BridgeNotFound" /\ message.step = i)
                          <=> ~BridgeExists(path[i])
                    /\ ~BridgeExists(path[i])
                          => /\ ~is_valid
                             /\ message = BridgeNotFound(i, path[i][3], path[i][1], path[i][2])
        /\ (Len(path) > 0 /\ path[1] = <<"A", "B", "Zeleny most">>)
              => message = BridgeNotFound(1, "Zeleny most", "A", "B")

\* the scenario: Zeleny most joins A and C, not A and B
C6_Witness ==
    /\ Called
    /\ Len(path) > 0
    /\ path[1] = <<"A", "B", "Zeleny most">>
    /\ message.kind = "BridgeNotFound"
    /\ message.step = 1

\* C7: a step with the right origin, after passing steps, that names an existing bridge
\* an earlier step crossed, in either direction, fails as bridge-reused; every path of
\* more than 7 steps and every path that crosses a bridge twice is invalid.
C7_ReuseRejected ==
    Called =>
        /\ \A i \in 1..Len(path) :
              (/\ PassesBefore(path, i)
               /\ StepOriginOk(path, i)
               /\ BridgeExists(path[i])
               /\ ~BridgeFresh(path, i))
                 => ~is_valid /\ message = BridgeReused(i, path[i][3])
        /\ Len(path) > 7 => ~is_valid
        /\ CrossesTwice(path) => ~is_valid

\* a path of more than 7 steps that fails where it crosses a bridge back
C7_Witness ==
    /\ Called
    /\ Len(path) > 7
    /\ message.kind = "BridgeReused"
    /\ \E j \in 1..(message.step - 1) :
          /\ path[j][3] = path[message.step][3]
          /\ path[j][1] = path[message.step][2]
          /\ path[j][2] = path[message.step][1]

\* some paths to call the validator on at any time
ProbePaths ==
    { <<>>,
      << <<"A", "C", "Zeleny most">> >>,
      << <<"A", "B", "Zeleny most">> >>,
      << <<"A", "C", "Zeleny most">>, <<"C", "A", "Zeleny most">> >>,
      << <<"A", "C", "Zeleny most">>, <<"A", "D", "Derevyanny most">> >>,
      << <<"A", "C", "Zeleny most">>, <<"C", "A", "Medovy most">>,
         <<"A", "D", "Derevyanny most">>, <<"D", "B", "Lavochny most">>,
         <<"B", "C", "Vysoky most">>, <<"C", "B", "Kuznechny most">> >> }

\* what a call on each probe path returns right after construction
FirstCall ==
    [p \in ProbePaths |->
        replay(edges_with_data(build_graph(bridges)), p, 1, {},
               IF Len(p) > 0 THEN p[1][1] ELSE None)]

C9_EmptyPathIncomplete ==
    (Called /\ Len(path) = 0) => ~is_valid /\ message = IncompletePath(0, 7)

\* the validator was called on the empty path
C9_Witness ==
    /\ Called
    /\ Len(path) = 0
    /\ message.kind = "IncompletePath"

-----------------------------------------------------------------------------
(* The Eulerian analysis: claim C10 *)

\* C10: on the seven bridges four nodes have odd degree, check_eulerian_path returns
\* false and find_eulerian_path returns None, in every state and at every call.
C10_NoEulerianPath ==
    /\ odd_degree_count(graph) = 4
    /\ ~check_eulerian_path(graph)
    /\ find_eulerian_path(graph) = [status |-> "None", route |-> <<>>]
    /\ eulerian.called => ~eulerian.value
    /\ theory_path.status # NotCalled => theory_path = [status |-> "None", route |-> <<>>]
    /\ output \notin {"TheoryRoute", "UnexpectedError"}

\* the menu's third choice has asked for the path and got None
C10_Witness ==
    /\ eulerian.called
    /\ theory_path.status = "None"
    /\ output = "TheoryImpossible"


-----------------------------------------------------------------------------
(* The graph: claim C11 *)

\* the number of edges of the graph that join the areas a and b
PairCount(a, b) ==
    Cardinality({j \in 1..Len(edges(graph)) : {edges(graph)[j][1], edges(graph)[j][2]} = {a, b}})

\* C11: in every state the program reaches, whatever walks, manual entries, validations
\* and analyses came before, the graph is the one __init__ built: its nodes are the four
\* areas, their degrees are A=3, B=3, C=5, D=3, and it has exactly 7 edges: A-C twice,
\* A-D once, B-C twice, B-D once, C-D once, and none between A and B.
C11_GraphIsKoenigsberg ==
    /\ graph = build_graph(bridges)
    /\ Range(nodes(graph)) = areas
    /\ degree(graph, "A") = 3
    /\ degree(graph, "B") = 3
    /\ degree(graph, "C") = 5
    /\ degree(graph, "D") = 3
    /\ Len(edges(graph)) = 7
    /\ PairCount("A", "C") = 2
    /\ PairCount("A", "D") = 1
    /\ PairCount("B", "C") = 2
    /\ PairCount("B", "D") = 1
    /\ PairCount("C", "D") = 1
    /\ PairCount("A", "B") = 0

\* the analysis ran, a walk crossed bridges, and a manual entry ended with its verdict
C11_Witness ==
    /\ pc = "menu"
    /\ eulerian.called
    /\ theory_path.status # NotCalled
    /\ output = "Verdict"
    /\ Cardinality(used_bridges) >= 2

-----------------------------------------------------------------------------
(* The analysis on modified graphs: claim C12 *)

\* the number of bridge ends at area n, counted on the edges of the graph
Ends(n) ==
    Cardinality({j \in 1..Len(edges(graph)) : edges(graph)[j][1] = n})
    + Cardinality({j \in 1..Len(edges(graph)) : edges(graph)[j][2] = n})

OddAreas == {n \in areas : Ends(n) % 2 = 1}

\* the areas joined to an area of S by a chain of bridges
RECURSIVE Component(_)
Component(S) ==
    LET T == S \cup {n \in areas : \E j \in 1..Len(edges(graph)) : \E m \in S :
                                     {edges(graph)[j][1], edges(graph)[j][2]} = {m, n}}
    IN  IF T = S THEN S ELSE Component(T)

\* every area that has a bridge is joined to every other one
Connected == Component({edges(graph)[1][1]}) = Range(nodes(graph))

\* r is what find_eulerian_path returns for an Eulerian path: as many steps as there are
\* bridges, every bridge crossed exactly once, each step starting where the step before ended
FullRoute(r) ==
    /\ r.status = "Found"
    /\ Len(r.route) = Len(edges(graph))
    /\ \A a, b \in areas :
          Cardinality({i \in 1..Len(r.route) : {r.route[i][1], r.route[i][2]} = {a, b}})
             = PairCount(a, b)
    /\ \A i \in 1..(Len(r.route) - 1) : r.route[i][2] = r.route[i + 1][1]

\* the analysis of play has run on the graph
Analysed == pc = "menu" /\ eulerian.called

\* C12 as stated: whenever 0 or 2 areas have odd degree, check_eulerian_path returns true
\* and find_eulerian_path returns a route over every bridge.
C12_Original ==
    (Analysed /\ Cardinality(OddAreas) \in {0, 2})
       => eulerian.value /\ FullRoute(theory_path)

\* C12, amended: whenever 0 or 2 areas have odd degree, check_eulerian_path returns true;
\* and when, moreover, the bridges join all the areas they touch, find_eulerian_path
\* returns a route of as many steps as there are bridges that crosses every bridge exactly
\* once, each step starting where the step before ended.
C12_ConnectedEvenGraphsHaveRoute ==
    (Analysed /\ Cardinality(OddAreas) \in {0, 2})
       => /\ eulerian.value
          /\ Connected => FullRoute(theory_path)

\* a connected graph of at least six bridges with two odd areas, and its route
C12_Witness ==
    /\ Analysed
    /\ Cardinality(OddAreas) = 2
    /\ Connected
    /\ Len(edges(graph)) >= 6
    /\ FullRoute(theory_path)

-----------------------------------------------------------------------------
(* The stuck walk: claim C13 *)

\* the names of the bridges of the used set
UsedNames == {name_of(id) : id \in used_bridges}

\* every bridge of the list bridges that touches the current position is used
NoUnusedBridgeHere ==
    \A b \in 1..Len(bridges) :
        current_position \in {bridges[b].a, bridges[b].b} => bridges[b].name \in UsedNames

\* C13: a turn of the interactive walk reports "no bridges from here" exactly when no
\* unused bridge touches the current position while fewer than 7 bridges are used; the
\* list of offered moves is then empty, the walk ends, and the used set, the history and
\* the current position stay as they are.
C13_StuckIffNoUnusedBridgeHere ==
    [][pc = "walk" =>
          /\ (NoUnusedBridgeHere /\ Cardinality(used_bridges) < Len(bridges))
                <=> output' = "NoBridges"
          /\ output' = "NoBridges"
                => /\ Len(available_bridges) = 0
                   /\ pc' = "menu"
                   /\ UNCHANGED session]_vars

\* a walk ended stuck after at least three crossings
C13_Witness ==
    /\ pc = "menu"
    /\ output = "NoBridges"
    /\ NoUnusedBridgeHere
    /\ Cardinality(used_bridges) >= 3
    /\ Len(path_history) = Cardinality(used_bridges)

-----------------------------------------------------------------------------
(* The used set: claim C14 *)

\* two ids name the same bridge: the same key between the same areas, in either order
SameBridge(id1, id2) == id1 = id2 \/ id1 = reversed(id2)

\* the id names an edge of the graph
IsBridge(id) == \E j \in 1..Len(edges(graph)) : SameBridge(id, edges(graph)[j])

\* C14: in every reachable state the used set holds ids of bridges of the graph, no bridge
\* under both orderings of its areas (parallel bridges differ by their key and count
\* separately), and at most 7 of them.
C14_UsedSetHasEachBridgeOnce ==
    /\ \A id \in used_bridges : IsBridge(id)
    /\ \A id1, id2 \in used_bridges : SameBridge(id1, id2) => id1 = id2
    /\ Cardinality(used_bridges) <= Len(bridges)

\* a walk has crossed two parallel bridges in opposite directions
C14_Witness ==
    /\ pc = "walk"
    /\ \E id1, id2 \in used_bridges :
          /\ id1[1] = id2[2]
          /\ id1[2] = id2[1]
          /\ id1[1] # id1[2]
          /\ id1[3] # id2[3]

-----------------------------------------------------------------------------
(* The start of a walk: claim C15 *)

\* C15: whenever an interactive walk starts, whatever the used set, the history and the
\* current position were before, its current position is A, its used set is empty and
\* its history is empty; the first snapshot of the walk shows no bridge as used.
C15_WalkStartsFresh ==
    [][(pc # "walk" /\ pc' = "walk")
          => /\ current_position' = "A"
             /\ used_bridges' = {}
             /\ path_history' = <<>>
             /\ \A k \in 1..Len(drawing') : \A j \in 1..Len(drawing'[k].edge) :
                    drawing'[k].edge[j].style # "used"]_vars

\* the menu after a manual entry that left a history, a used set and a position other
\* than A behind: the next walk starts from here
C15_Witness ==
    /\ pc = "menu"
    /\ output = "Verdict"
    /\ Len(path_history) >= 2
    /\ Cardinality(used_bridges) >= 1
    /\ current_position \notin {"A", None}
    /\ ENABLED MenuWalk

-----------------------------------------------------------------------------
(* No walk is completed: claim C16 *)

\* C16: on the fixed map an interactive walk never has more than 6 used bridges, the
\* congratulation of the win branch is never printed, and a walk ends only by the
\* report that no bridge is left at the current position or by the input Q.
C16_WalkNeverCompletes ==
    [][/\ pc' = "walk" => Cardinality(used_bridges') <= 6
       /\ output' # "Congratulations"
       /\ (pc = "walk" /\ pc' # "walk") => output' \in {"NoBridges", "WalkQuit"}]_vars

\* a walk that crossed six bridges and ended stuck
C16_Witness ==
    /\ pc = "menu"
    /\ output = "NoBridges"
    /\ Cardinality(used_bridges) = 6
    /\ Len(path_history) = 6

-----------------------------------------------------------------------------
(* Manual path entry: claim C17 *)

\* the step, put after the path p, starts where p ends, names a bridge between its two
\* areas, and names no bridge that p names
GoodStep(p, step) ==
    LET q == Append(p, step)
    IN  StepOriginOk(q, Len(q)) /\ BridgeExists(step) /\ BridgeFresh(q, Len(q))

\* C17: when manual_path_input handles a well-formed step, the step is missing from the
\* path afterwards only if it does not start where the step before it ended; and a step
\* that starts there, names an existing bridge between its areas and reuses no bridge is
\* the last step of the path afterwards, the history is the path, the current position
\* is the step's destination and the step's bridge is in the used set.
C17_GoodStepStays ==
    [][\A step \in ManualSteps :
          ManualEnter(step)
             => /\ path' = path => ~StepOriginOk(Append(path, step), Len(path) + 1)
                /\ GoodStep(path, step)
                      => /\ path' = Append(path, step)
                         /\ path_history' = path'
                         /\ current_position' = step[2]
                         /\ \E id \in used_bridges' : name_of(id) = step[3]]_vars

-----------------------------------------------------------------------------
(* The drawing of a walk: claim C18 *)

\* the names of the bridges offered as moves
OfferedNames == {available_bridges[i].name : i \in 1..Len(available_bridges)}

\* C18: in every snapshot a turn of the interactive walk draws, all bridges are drawn, a
\* bridge is drawn as used exactly when it is in the used set at that moment, under
\* either ordering of its areas, and drawn highlighted exactly when it is unused and among
\* the moves passed to the drawing: the offered moves in the snapshot drawn before the
\* input is read, none in the snapshot drawn after a crossing.
C18_SnapshotsMatchSession ==
    [][pc = "walk" =>
          \A k \in 1..Len(drawing') :
              /\ Len(drawing'[k].edge) = Len(bridges)
              /\ \A j \in 1..Len(drawing'[k].edge) :
                    LET e == drawing'[k].edge[j]
                    IN  IF k = 1
                        THEN /\ e.style = "used" <=> e.name \in UsedNames
                             /\ e.style = "highlight"
                                   <=> (e.name \notin UsedNames /\ e.name \in OfferedNames)
                        ELSE /\ e.style = "used" <=> e.name \in UsedNames'
                             /\ e.style # "highlight"]_vars

-----------------------------------------------------------------------------
(* The walk and the validator: claim C19 *)

\* C19: in every state of an interactive walk that has crossed a bridge, every step of
\* the history passes the origin, the existence and the no-reuse check, and
\* validate_user_path, called on the history, fails at no step and counts as many used
\* bridges as the used set of the walk holds: it returns valid when there are 7, and
\* otherwise invalid with the incomplete-path reason of that count.
C19_WalkHistoryValidates ==
    (pc = "walk" /\ Len(path_history) > 0)
       => /\ AllStepsPass(path_history)
          /\ validate_user_path(path_history) = verdict(used_bridges)
          /\ validate_user_path(path_history).valid <=> Cardinality(used_bridges) = 7
          /\ ~validate_user_path(path_history).valid
                => validate_user_path(path_history).message
                      = IncompletePath(Cardinality(used_bridges), 7)

\* a walk of six crossings, one of them against the direction the graph reports the
\* bridge in, and the validator counts six
C19_Witness ==
    /\ pc = "walk"
    /\ Len(path_history) = 6
    /\ \E id \in used_bridges : \A j \in 1..Len(edges(graph)) : edges(graph)[j] # id
    /\ validate_user_path(path_history).message = IncompletePath(6, 7)

-----------------------------------------------------------------------------
(* The walk ends: claim C20 *)

\* C20: with a user who never types Q and, asked for a move, types the number of an
\* offered bridge in the end: a turn of the walk that crosses a bridge makes the used
\* set one larger, every other turn leaves it as it is, no walk crosses more than 7
\* bridges, and every walk ends, stuck or complete.
C20_WalkTerminates ==
    /\ [][pc = "walk" =>
             IF output' \in {"Crossed", "Congratulations"}
             THEN Cardinality(used_bridges') = Cardinality(used_bridges) + 1
             ELSE used_bridges' = used_bridges]_vars
    /\ [](pc = "walk" => /\ Len(path_history) = Cardinality(used_bridges)
                         /\ Len(path_history) <= 7)
    /\ (pc = "walk") ~> (pc = "menu" /\ output \in {"NoBridges", "Congratulations"})

\* a walk that went on after a rejected input and ended stuck
C20_Witness ==
    /\ pc = "menu"
    /\ output = "NoBridges"
    /\ Len(path_history) >= 4
    /\ Cardinality(used_bridges) = Len(path_history)

=============================================================================
